---------------------------- MODULE Spec2Model ----------------------------
(***************************************************************************)
(* CompliSense: the compliance analysis pipeline of app/rag_engine.py      *)
(* (ComplianceRAG), the vector store of app/embeddings.py                  *)
(* (RegulationVectorStore), the result schema of app/schemas.py            *)
(* (ComplianceResult) and the shared instance of app/api.py.               *)
(*                                                                         *)
(* Text is a sequence of one-character strings, so that lower(), strip(),  *)
(* len(), "in" and the regular expression of the extractor are computed on *)
(* characters as the code computes them.  A float is an integer number of  *)
(* hundredths (0.85 is 85).                                                *)
(***************************************************************************)
EXTENDS Integers, Sequences, FiniteSets, TLC

VARIABLES
    \* ---- the shared ComplianceRAG instance (api.py: rag_engine) ----
    hasModel,    \* hasattr(self.vector_store, "model")
    index,       \* the flat index: the embedding of each regulation, in row order
    \* ---- one analyze_clause call per request ----
    pc,          \* where each request's call stands
    clause,      \* clause_text of the call
    retrieved,   \* what search returned to the call
    response,    \* what the language model answered
    ret,         \* the ComplianceResult the call returns
    exc,         \* the exception raised in the call, if one was
    llmCalls,    \* how many times the call has called ollama.chat
    calls,       \* analyze_clause calls started so far
    \* ---- _extract_and_validate_json applied to one response ----
    exResponse,  \* the response given to the extractor
    exMatch,     \* json_match of the extractor
    exOut,       \* what the extractor returned or raised
    exDone,      \* whether the extractor has run
    \* ---- RegulationVectorStore.search applied to one query ----
    sQuery,      \* the query's embedding
    sK,          \* top_k
    sIds,        \* the row ids the flat index reported
    sResult,     \* what search returned
    sDone,       \* whether search has run
    \* ---- _apply_rule_based_checks applied to one clause and result ----
    ruClause,    \* clause_text given to the rules
    ruIn,        \* the result given to the rules
    ruOut,       \* the result the rules returned
    ruDone       \* whether the rules have run

vars == <<hasModel, index, pc, clause, retrieved, response, ret, exc,
          llmCalls, calls, exResponse, exMatch, exOut, exDone,
          sQuery, sK, sIds, sResult, sDone, ruClause, ruIn, ruOut, ruDone>>

pipelineVars == <<hasModel, pc, clause, retrieved, response, ret, exc,
                  llmCalls, calls>>
extractVars == <<exResponse, exMatch, exOut, exDone>>
searchVars == <<sQuery, sK, sIds, sResult, sDone>>
ruleVars == <<ruClause, ruIn, ruOut, ruDone>>

----------------------------------------------------------------------------
(* Bounds of the model. *)

\* analyze_clause calls started in one behaviour
MaxCalls == 3
\* length of a raw model text given to the brace search
MaxLen == 6
\* regulations in an index given to search
MaxN == 3
\* largest embedding coordinate
MaxCoord == 2
\* largest top_k given to search
MaxK == 3

----------------------------------------------------------------------------
(* Strings. *)

Min(S) == CHOOSE x \in S : \A y \in S : x <= y
Max(S) == CHOOSE x \in S : \A y \in S : x >= y

UpperCase ==
    <<"A", "B", "C", "D", "E", "F", "G", "H", "I", "J", "K", "L", "M",
      "N", "O", "P", "Q", "R", "S", "T", "U", "V", "W", "X", "Y", "Z">>
LowerCase ==
    <<"a", "b", "c", "d", "e", "f", "g", "h", "i", "j", "k", "l", "m",
      "n", "o", "p", "q", "r", "s", "t", "u", "v", "w", "x", "y", "z">>

\* str.lower() on one character
LowerChar(c) ==
    IF \E i \in 1..26 : UpperCase[i] = c
    THEN LowerCase[CHOOSE i \in 1..26 : UpperCase[i] = c]
    ELSE c

\* str.lower()
Lower(s) == [i \in 1..Len(s) |-> LowerChar(s[i])]

IsSpace(c) == c \in {" ", "\n", "\t"}

\* str.strip()
Strip(s) ==
    LET keep == {i \in 1..Len(s) : ~IsSpace(s[i])}
    IN  IF keep = {} THEN <<>> ELSE SubSeq(s, Min(keep), Max(keep))

\* needle in hay
Contains(hay, needle) ==
    \E i \in 1..(Len(hay) - Len(needle) + 1) :
        SubSeq(hay, i, i + Len(needle) - 1) = needle

\* any(keyword in text for keyword in keywords)
AnyIn(keywords, text) == \E keyword \in keywords : Contains(text, keyword)

----------------------------------------------------------------------------
(* String literals of the source. *)

\* "Compliant" (schemas.py Literal)
s_Compliant ==
    <<"C", "o", "m", "p", "l", "i", "a", "n", "t">>
\* "Non-Compliant"
s_NonCompliant ==
    <<"N", "o", "n", "-", "C", "o", "m", "p", "l", "i", "a", "n", "t">>
\* "Partially Compliant"
s_PartiallyCompliant ==
    <<"P", "a", "r", "t", "i", "a", "l", "l", "y", " ", "C", "o", "m", "p", "l", "i", "a", "n",
      "t">>
\* "Unknown"
s_Unknown ==
    <<"U", "n", "k", "n", "o", "w", "n">>
\* "Low"
s_Low ==
    <<"L", "o", "w">>
\* "Medium"
s_Medium ==
    <<"M", "e", "d", "i", "u", "m">>
\* "High"
s_High ==
    <<"H", "i", "g", "h">>
\* field name "compliance_status"
f_compliance_status ==
    <<"c", "o", "m", "p", "l", "i", "a", "n", "c", "e", "_", "s", "t", "a", "t", "u", "s">>
\* field name "reason"
f_reason ==
    <<"r", "e", "a", "s", "o", "n">>
\* field name "risk_level"
f_risk_level ==
    <<"r", "i", "s", "k", "_", "l", "e", "v", "e", "l">>
\* field name "confidence_score"
f_confidence_score ==
    <<"c", "o", "n", "f", "i", "d", "e", "n", "c", "e", "_", "s", "c", "o", "r", "e">>
\* ["compliant", "yes", "pass"]
status_compliant ==
    {
      <<"c", "o", "m", "p", "l", "i", "a", "n", "t">>,
      <<"y", "e", "s">>,
      <<"p", "a", "s", "s">>
    }
\* ["non-compliant", "noncompliant", "no", "fail"]
status_non_compliant ==
    {
      <<"n", "o", "n", "-", "c", "o", "m", "p", "l", "i", "a", "n", "t">>,
      <<"n", "o", "n", "c", "o", "m", "p", "l", "i", "a", "n", "t">>,
      <<"n", "o">>,
      <<"f", "a", "i", "l">>
    }
\* ["partial", "partially compliant", "partly"]
status_partial ==
    {
      <<"p", "a", "r", "t", "i", "a", "l">>,
      <<"p", "a", "r", "t", "i", "a", "l", "l", "y", " ", "c", "o", "m", "p", "l", "i", "a", "n",
        "t">>,
      <<"p", "a", "r", "t", "l", "y">>
    }
\* ["low", "l"]
risk_low ==
    {
      <<"l", "o", "w">>,
      <<"l">>
    }
\* ["medium", "med", "m", "moderate"]
risk_medium ==
    {
      <<"m", "e", "d", "i", "u", "m">>,
      <<"m", "e", "d">>,
      <<"m">>,
      <<"m", "o", "d", "e", "r", "a", "t", "e">>
    }
\* ["high", "h", "critical"]
risk_high ==
    {
      <<"h", "i", "g", "h">>,
      <<"h">>,
      <<"c", "r", "i", "t", "i", "c", "a", "l">>
    }
\* RULE 1 keyword list
indefinite_keywords ==
    {
      <<"i", "n", "d", "e", "f", "i", "n", "i", "t", "e", "l", "y">>,
      <<"i", "n", "d", "e", "f", "i", "n", "i", "t", "e">>,
      <<"f", "o", "r", "e", "v", "e", "r">>,
      <<"p", "e", "r", "m", "a", "n", "e", "n", "t", "l", "y">>,
      <<"n", "o", " ", "r", "e", "t", "e", "n", "t", "i", "o", "n", " ", "l", "i", "m", "i", "t">>,
      <<"r", "e", "t", "a", "i", "n", " ", "a", "l", "l", " ", "d", "a", "t", "a">>,
      <<"k", "e", "e", "p", " ", "a", "l", "l", " ", "d", "a", "t", "a">>,
      <<"w", "i", "t", "h", "o", "u", "t", " ", "t", "i", "m", "e", " ", "l", "i", "m", "i", "t">>,
      <<"n", "o", " ", "e", "x", "p", "i", "r", "a", "t", "i", "o", "n">>,
      <<"n", "e", "v", "e", "r", " ", "d", "e", "l", "e", "t", "e">>
    }
\* RULE 1 reason
reason_retention ==
    <<"I", "n", "d", "e", "f", "i", "n", "i", "t", "e", " ", "d", "a", "t", "a", " ", "r", "e",
      "t", "e", "n", "t", "i", "o", "n", " ", "v", "i", "o", "l", "a", "t", "e", "s", " ", "G",
      "D", "P", "R", " ", "s", "t", "o", "r", "a", "g", "e", " ", "l", "i", "m", "i", "t", "a",
      "t", "i", "o", "n", " ", "p", "r", "i", "n", "c", "i", "p", "l", "e", " ", "(", "A", "r",
      "t", "i", "c", "l", "e", " ", "5", "(", "1", ")", "(", "e", ")", ")", ".">>
\* RULE 2 keyword list
sharing_keywords ==
    {
      <<"s", "h", "a", "r", "e", " ", "w", "i", "t", "h", " ", "t", "h", "i", "r", "d", " ", "p",
        "a", "r", "t", "i", "e", "s", " ", "w", "i", "t", "h", "o", "u", "t", " ", "c", "o", "n",
        "s", "e", "n", "t">>,
      <<"s", "e", "l", "l", " ", "p", "e", "r", "s", "o", "n", "a", "l", " ", "d", "a", "t", "a">>,
      <<"t", "r", "a", "n", "s", "f", "e", "r", " ", "d", "a", "t", "a", " ", "w", "i", "t", "h",
        "o", "u", "t", " ", "p", "e", "r", "m", "i", "s", "s", "i", "o", "n">>
    }
\* RULE 2 reason
reason_sharing ==
    <<"S", "h", "a", "r", "i", "n", "g", " ", "p", "e", "r", "s", "o", "n", "a", "l", " ", "d",
      "a", "t", "a", " ", "w", "i", "t", "h", "o", "u", "t", " ", "c", "o", "n", "s", "e", "n",
      "t", " ", "v", "i", "o", "l", "a", "t", "e", "s", " ", "G", "D", "P", "R", " ", "l", "a",
      "w", "f", "u", "l", "n", "e", "s", "s", " ", "p", "r", "i", "n", "c", "i", "p", "l", "e",
      " ", "(", "A", "r", "t", "i", "c", "l", "e", " ", "6", ")", ".">>
\* RULE 3 keyword list
rights_violations ==
    {
      <<"u", "s", "e", "r", "s", " ", "c", "a", "n", "n", "o", "t", " ", "d", "e", "l", "e", "t",
        "e", " ", "t", "h", "e", "i", "r", " ", "d", "a", "t", "a">>,
      <<"n", "o", " ", "r", "i", "g", "h", "t", " ", "t", "o", " ", "d", "e", "l", "e", "t", "i",
        "o", "n">>,
      <<"d", "a", "t", "a", " ", "c", "a", "n", "n", "o", "t", " ", "b", "e", " ", "r", "e", "m",
        "o", "v", "e", "d">>,
      <<"u", "s", "e", "r", "s", " ", "c", "a", "n", "n", "o", "t", " ", "a", "c", "c", "e", "s",
        "s", " ", "t", "h", "e", "i", "r", " ", "d", "a", "t", "a">>
    }
\* RULE 3 reason
reason_rights ==
    <<"D", "e", "n", "y", "i", "n", "g", " ", "d", "a", "t", "a", " ", "s", "u", "b", "j", "e",
      "c", "t", " ", "r", "i", "g", "h", "t", "s", " ", "v", "i", "o", "l", "a", "t", "e", "s",
      " ", "G", "D", "P", "R", " ", "A", "r", "t", "i", "c", "l", "e", "s", " ", "1", "5", "-",
      "2", "2", " ", "(", "r", "i", "g", "h", "t", " ", "t", "o", " ", "a", "c", "c", "e", "s",
      "s", ",", " ", "d", "e", "l", "e", "t", "i", "o", "n", ",", " ", "e", "t", "c", ".", ")",
      ".">>
\* fallback reason when no JSON object is found
reason_no_json ==
    <<"L", "L", "M", " ", "d", "i", "d", " ", "n", "o", "t", " ", "r", "e", "t", "u", "r", "n",
      " ", "s", "t", "r", "u", "c", "t", "u", "r", "e", "d", " ", "o", "u", "t", "p", "u", "t">>
\* prefix put before a reason shorter than 5 characters
prefix_short_reason ==
    <<"C", "o", "m", "p", "l", "i", "a", "n", "c", "e", " ", "a", "n", "a", "l", "y", "s", "i",
      "s", ":", " ">>
\* prefix of the validation fallback reason
prefix_validation ==
    <<"V", "a", "l", "i", "d", "a", "t", "i", "o", "n", " ", "f", "a", "i", "l", "e", "d", ":",
      " ">>
\* prefix of the JSON decode fallback reason
prefix_invalid_json ==
    <<"I", "n", "v", "a", "l", "i", "d", " ", "J", "S", "O", "N", " ", "f", "o", "r", "m", "a",
      "t", ":", " ">>
\* prefix of the technical-error fallback reason
prefix_technical ==
    <<"A", "n", "a", "l", "y", "s", "i", "s", " ", "f", "a", "i", "l", "e", "d", " ", "d", "u",
      "e", " ", "t", "o", " ", "t", "e", "c", "h", "n", "i", "c", "a", "l", " ", "e", "r", "r",
      "o", "r", ":", " ">>
\* separator between an error's field and its message
sep_loc ==
    <<":", " ">>
\* separator between two errors
sep_err ==
    <<";", " ">>
\* pydantic message: missing field
msg_missing ==
    <<"F", "i", "e", "l", "d", " ", "r", "e", "q", "u", "i", "r", "e", "d">>
\* pydantic message: compliance_status not one of the literals
msg_literal_status ==
    <<"I", "n", "p", "u", "t", " ", "s", "h", "o", "u", "l", "d", " ", "b", "e", " ", "'", "C",
      "o", "m", "p", "l", "i", "a", "n", "t", "'", ",", " ", "'", "N", "o", "n", "-", "C", "o",
      "m", "p", "l", "i", "a", "n", "t", "'", ",", " ", "'", "P", "a", "r", "t", "i", "a", "l",
      "l", "y", " ", "C", "o", "m", "p", "l", "i", "a", "n", "t", "'", " ", "o", "r", " ", "'",
      "U", "n", "k", "n", "o", "w", "n", "'">>
\* pydantic message: risk_level not one of the literals
msg_literal_risk ==
    <<"I", "n", "p", "u", "t", " ", "s", "h", "o", "u", "l", "d", " ", "b", "e", " ", "'", "L",
      "o", "w", "'", ",", " ", "'", "M", "e", "d", "i", "u", "m", "'", ",", " ", "'", "H", "i",
      "g", "h", "'", " ", "o", "r", " ", "'", "U", "n", "k", "n", "o", "w", "n", "'">>
\* pydantic message: reason shorter than min_length
msg_too_short ==
    <<"S", "t", "r", "i", "n", "g", " ", "s", "h", "o", "u", "l", "d", " ", "h", "a", "v", "e",
      " ", "a", "t", " ", "l", "e", "a", "s", "t", " ", "5", " ", "c", "h", "a", "r", "a", "c",
      "t", "e", "r", "s">>
\* pydantic message: the reason validator raised
msg_reason_empty ==
    <<"V", "a", "l", "u", "e", " ", "e", "r", "r", "o", "r", ",", " ", "R", "e", "a", "s", "o",
      "n", " ", "c", "a", "n", "n", "o", "t", " ", "b", "e", " ", "e", "m", "p", "t", "y">>
\* pydantic message: confidence_score is not a number
msg_not_number ==
    <<"I", "n", "p", "u", "t", " ", "s", "h", "o", "u", "l", "d", " ", "b", "e", " ", "a", " ",
      "v", "a", "l", "i", "d", " ", "n", "u", "m", "b", "e", "r">>
\* pydantic message: confidence_score above le
msg_above ==
    <<"I", "n", "p", "u", "t", " ", "s", "h", "o", "u", "l", "d", " ", "b", "e", " ", "l", "e",
      "s", "s", " ", "t", "h", "a", "n", " ", "o", "r", " ", "e", "q", "u", "a", "l", " ", "t",
      "o", " ", "1">>
\* pydantic message: confidence_score below ge
msg_below ==
    <<"I", "n", "p", "u", "t", " ", "s", "h", "o", "u", "l", "d", " ", "b", "e", " ", "g", "r",
      "e", "a", "t", "e", "r", " ", "t", "h", "a", "n", " ", "o", "r", " ", "e", "q", "u", "a",
      "l", " ", "t", "o", " ", "0">>
\* AttributeError text of .strip() on a value that is no string
msg_no_strip ==
    <<"o", "b", "j", "e", "c", "t", " ", "h", "a", "s", " ", "n", "o", " ", "a", "t", "t", "r",
      "i", "b", "u", "t", "e", " ", "'", "s", "t", "r", "i", "p", "'">>
\* AttributeError text of reading the deleted model attribute
msg_no_model ==
    <<"'", "R", "e", "g", "u", "l", "a", "t", "i", "o", "n", "V", "e", "c", "t", "o", "r", "S",
      "t", "o", "r", "e", "'", " ", "o", "b", "j", "e", "c", "t", " ", "h", "a", "s", " ", "n",
      "o", " ", "a", "t", "t", "r", "i", "b", "u", "t", "e", " ", "'", "m", "o", "d", "e", "l",
      "'">>
\* AttributeError text of deleting the model attribute twice
msg_del_model ==
    <<"m", "o", "d", "e", "l">>
\* a json.JSONDecodeError text
msg_json_decode ==
    <<"E", "x", "p", "e", "c", "t", "i", "n", "g", " ", "p", "r", "o", "p", "e", "r", "t", "y",
      " ", "n", "a", "m", "e", " ", "e", "n", "c", "l", "o", "s", "e", "d", " ", "i", "n", " ",
      "d", "o", "u", "b", "l", "e", " ", "q", "u", "o", "t", "e", "s">>
\* pydantic message: reason is not a string
msg_not_string ==
    <<"I", "n", "p", "u", "t", " ", "s", "h", "o", "u", "l", "d", " ", "b", "e", " ", "a", " ",
      "v", "a", "l", "i", "d", " ", "s", "t", "r", "i", "n", "g">>
\* Python's name of the type of null, quoted
type_none ==
    <<"'", "N", "o", "n", "e", "T", "y", "p", "e", "'", " ">>
\* Python's name of the type of a number, quoted
type_float ==
    <<"'", "f", "l", "o", "a", "t", "'", " ">>
\* clause texts of the requests: empty, a retention phrase, a sharing phrase, neither
Clauses ==
    {
      <<>>,
      <<"R", "e", "t", "a", "i", "n", "e", "d", " ", "I", "N", "D", "E", "F", "I", "N", "I", "T",
        "E", "L", "Y">>,
      <<"s", "e", "l", "l", " ", "p", "e", "r", "s", "o", "n", "a", "l", " ", "d", "a", "t", "a">>,
      <<"l", "a", "w", "f", "u", "l", " ", "u", "s", "e">>
    }
\* a model answer with no JSON object
text_prose ==
    <<"I", " ", "a", "m", " ", "n", "o", "t", " ", "s", "u", "r", "e", ".">>
\* a model answer with one JSON object in prose (the object's content is the parsed value)
text_json ==
    <<"S", "u", "r", "e", "!", " ", "{", ".", ".", ".", "}", " ", "T", "h", "a", "n", "k", "s">>
\* the text of a client fault
msg_timeout ==
    <<"t", "i", "m", "e", "d", " ", "o", "u", "t">>
\* a reason shorter than five characters
v_ok ==
    <<"o", "k">>
\* a reason
v_lawful ==
    <<"P", "r", "o", "c", "e", "s", "s", "i", "n", "g", " ", "i", "s", " ", "l", "a", "w", "f",
      "u", "l">>
\* a compliance_status that is no alias and no literal
v_maybe ==
    <<"m", "a", "y", "b", "e">>

----------------------------------------------------------------------------
(* JSON values as json.loads returns them: a string, a number, null, or no *)
(* value at all under that key.                                            *)

Str(s) == [t |-> "str", s |-> s, n |-> 0]
Num(n) == [t |-> "num", s |-> <<>>, n |-> n]
Null == [t |-> "null", s |-> <<>>, n |-> 0]
Absent == [t |-> "absent", s |-> <<>>, n |-> 0]

\* key in raw_json
Has(v) == v.t # "absent"

Digits == <<"0", "1", "2", "3", "4", "5", "6", "7", "8", "9">>
IsDigit(c) == \E i \in 1..10 : Digits[i] = c
DigitVal(c) == (CHOOSE i \in 1..10 : Digits[i] = c) - 1

RECURSIVE IntOf(_)
IntOf(ds) ==
    IF ds = <<>> THEN 0
    ELSE 10 * IntOf(SubSeq(ds, 1, Len(ds) - 1)) + DigitVal(ds[Len(ds)])

\* the text of an unsigned decimal number with at most two decimals
IsDecimal(s) ==
    /\ \A i \in 1..Len(s) : IsDigit(s[i]) \/ s[i] = "."
    /\ Cardinality({i \in 1..Len(s) : s[i] = "."}) <= 1
    /\ \E i \in 1..Len(s) : IsDigit(s[i])
    /\ \A i \in 1..Len(s) : s[i] = "." => Len(s) - i <= 2

\* float(s) of such a text, in hundredths
DecimalOf(s) ==
    LET dots == {i \in 1..Len(s) : s[i] = "."}
        dot == IF dots = {} THEN Len(s) + 1 ELSE Min(dots)
        whole == SubSeq(s, 1, dot - 1)
        frac == SubSeq(s, dot + 1, Len(s))
    IN  100 * IntOf(whole)
          + (IF Len(frac) = 0 THEN 0
             ELSE IF Len(frac) = 1 THEN 10 * IntOf(frac)
             ELSE IntOf(frac))

\* pydantic's coercion of a float field: a number, or a string that reads as one
IsFloatLike(v) ==
    \/ v.t = "num"
    \/ v.t = "str" /\ LET s == Strip(v.s)
                      IN  \/ IsDecimal(s)
                          \/ Len(s) > 1 /\ s[1] = "-" /\ IsDecimal(Tail(s))

FloatOf(v) ==
    IF v.t = "num" THEN v.n
    ELSE LET s == Strip(v.s)
         IN  IF s[1] = "-" THEN 0 - DecimalOf(Tail(s)) ELSE DecimalOf(s)

----------------------------------------------------------------------------
(* app/schemas.py: ComplianceResult. *)

StatusLiterals == {s_Compliant, s_NonCompliant, s_PartiallyCompliant, s_Unknown}
RiskLiterals == {s_Low, s_Medium, s_High, s_Unknown}

\* Field(min_length=5)
MinReasonLength == 5
\* Field(ge=0.0, le=1.0), in hundredths
ConfidenceMin == 0
ConfidenceMax == 100

\* each field's validation: <<>> when the value is accepted, else the message
StatusError(v) ==
    IF ~Has(v) THEN msg_missing
    ELSE IF v.t = "str" /\ v.s \in StatusLiterals THEN <<>>
    ELSE msg_literal_status

ReasonError(v) ==
    IF ~Has(v) THEN msg_missing
    ELSE IF v.t # "str" THEN msg_not_string
    ELSE IF Len(v.s) < MinReasonLength THEN msg_too_short
    ELSE IF Strip(v.s) = <<>> THEN msg_reason_empty
    ELSE <<>>

RiskError(v) ==
    IF ~Has(v) THEN msg_missing
    ELSE IF v.t = "str" /\ v.s \in RiskLiterals THEN <<>>
    ELSE msg_literal_risk

\* a slip in the schema: the upper bound of confidence_score is not checked
ConfidenceErrorNoMax(v) ==
    IF ~Has(v) THEN msg_missing
    ELSE IF ~IsFloatLike(v) THEN msg_not_number
    ELSE IF FloatOf(v) < ConfidenceMin THEN msg_below
    ELSE <<>>

ConfidenceError(v) ==
    IF ~Has(v) THEN msg_missing
    ELSE IF ~IsFloatLike(v) THEN msg_not_number
    ELSE IF FloatOf(v) < ConfidenceMin THEN msg_below
    ELSE IF FloatOf(v) > ConfidenceMax THEN msg_above
    ELSE <<>>

\* a slip in the error report: only the first rejected field is reported
ValidationErrorsFirstOnly(raw) ==
    LET all == SelectSeq(<< <<f_compliance_status, StatusError(raw.compliance_status)>>,
                            <<f_reason, ReasonError(raw.reason)>>,
                            <<f_risk_level, RiskError(raw.risk_level)>>,
                            <<f_confidence_score,
                              ConfidenceError(raw.confidence_score)>> >>,
                         LAMBDA e : e[2] # <<>>)
    IN  IF all = <<>> THEN <<>> ELSE <<all[1]>>

\* e.errors(): one <<loc, msg>> per rejected field, in the order of the fields
ValidationErrors(raw) ==
    LET all == << <<f_compliance_status, StatusError(raw.compliance_status)>>,
                  <<f_reason, ReasonError(raw.reason)>>,
                  <<f_risk_level, RiskError(raw.risk_level)>>,
                  <<f_confidence_score, ConfidenceError(raw.confidence_score)>> >>
    IN  SelectSeq(all, LAMBDA e : e[2] # <<>>)

\* ComplianceResult(...) of values that passed validation
MkResult(status, reason, risk, confidence) ==
    [compliance_status |-> status, reason |-> reason,
     risk_level |-> risk, confidence_score |-> confidence]

\* the four field constraints of the schema, on a result
ValidResult(r) ==
    /\ r.compliance_status \in StatusLiterals
    /\ r.risk_level \in RiskLiterals
    /\ Len(r.reason) >= MinReasonLength
    /\ Strip(r.reason) # <<>>
    /\ ConfidenceMin <= r.confidence_score
    /\ r.confidence_score <= ConfidenceMax

\* no result (the call has returned nothing)
NoResult == MkResult(<<>>, <<>>, <<>>, 0)

----------------------------------------------------------------------------
(* app/rag_engine.py: ComplianceRAG._extract_and_validate_json. *)

\* what a call returned (ok, res) or the text of what it raised (exc)
Returned(r) == [ok |-> TRUE, res |-> r, exc |-> <<>>]
Raised(m) == [ok |-> FALSE, res |-> NoResult, exc |-> m]

\* the fallback result of every fault path
UnknownResult(reason) == MkResult(s_Unknown, reason, s_Unknown, 0)

IsBrace(c) == c \in {"{", "}"}

\* [^{}]* from position i: the position after the run of non-brace characters
SkipPlain(t, i) ==
    LET stops == {j \in i..Len(t) : IsBrace(t[j])}
    IN  IF stops = {} THEN Len(t) + 1 ELSE Min(stops)

\* (?:\{[^{}]*\}[^{}]*)*\} from position j: the position of the closing brace, 0
\* when the pattern does not match
RECURSIVE MatchGroups(_, _)
MatchGroups(t, j) ==
    IF j > Len(t) THEN 0
    ELSE IF t[j] = "}" THEN j
    ELSE LET k == SkipPlain(t, j + 1)
         IN  IF k <= Len(t) /\ t[k] = "}"
             THEN MatchGroups(t, SkipPlain(t, k + 1))
             ELSE 0

\* \{[^{}]*(?:\{[^{}]*\}[^{}]*)*\} matched at position i: the end of the match or 0
MatchAt(t, i) ==
    IF t[i] = "{" THEN MatchGroups(t, SkipPlain(t, i + 1)) ELSE 0

NoMatch == [found |-> FALSE, start |-> 0, end |-> 0, group |-> <<>>]

\* a slip in the pattern: \{[^{}]*\}, which allows no nested braces
ReSearchFlat(t) ==
    LET flat(i) == IF t[i] = "{" /\ SkipPlain(t, i + 1) <= Len(t)
                      /\ t[SkipPlain(t, i + 1)] = "}"
                   THEN SkipPlain(t, i + 1) ELSE 0
        starts == {i \in 1..Len(t) : flat(i) > 0}
    IN  IF starts = {} THEN NoMatch
        ELSE LET i == Min(starts)
             IN  [found |-> TRUE, start |-> i, end |-> flat(i),
                  group |-> SubSeq(t, i, flat(i))]

\* re.search(r'\{[^{}]*(?:\{[^{}]*\}[^{}]*)*\}', response_text, re.DOTALL)
ReSearch(t) ==
    LET starts == {i \in 1..Len(t) : MatchAt(t, i) > 0}
    IN  IF starts = {} THEN NoMatch
        ELSE LET i == Min(starts)
             IN  [found |-> TRUE, start |-> i, end |-> MatchAt(t, i),
                  group |-> SubSeq(t, i, MatchAt(t, i))]

\* the parsed object: one JSON value (or none) under each of the four keys
MkRaw(status, reason, risk, confidence) ==
    [compliance_status |-> status, reason |-> reason,
     risk_level |-> risk, confidence_score |-> confidence]

NoRaw == MkRaw(Absent, Absent, Absent, Absent)

\* json.loads(json_match.group()): the object, or the JSONDecodeError's text
Parsed(raw) == [ok |-> TRUE, obj |-> raw, msg |-> <<>>]
DecodeError(m) == [ok |-> FALSE, obj |-> NoRaw, msg |-> m]

\* v.strip() raises AttributeError when v is no string
TypeName(v) == IF v.t = "null" THEN type_none ELSE type_float
StripError(v) == Raised(TypeName(v) \o msg_no_strip)

\* the reason clean-up
CleanReason(v) ==
    LET s == Strip(v.s)
    IN  Str(IF Len(s) < MinReasonLength THEN prefix_short_reason \o s ELSE s)

\* the compliance_status normalization
NormalizeStatus(v) ==
    LET status == Strip(v.s)
    IN  IF Lower(status) \in status_compliant THEN Str(s_Compliant)
        ELSE IF Lower(status) \in status_non_compliant THEN Str(s_NonCompliant)
        ELSE IF Lower(status) \in status_partial THEN Str(s_PartiallyCompliant)
        ELSE v

\* a slip in the risk_level normalization: the value is not lower-cased
NormalizeRiskCased(v) ==
    LET risk == Strip(v.s)
    IN  IF risk \in risk_low THEN Str(s_Low)
        ELSE IF risk \in risk_medium THEN Str(s_Medium)
        ELSE IF risk \in risk_high THEN Str(s_High)
        ELSE v

\* the risk_level normalization
NormalizeRisk(v) ==
    LET risk == Lower(Strip(v.s))
    IN  IF risk \in risk_low THEN Str(s_Low)
        ELSE IF risk \in risk_medium THEN Str(s_Medium)
        ELSE IF risk \in risk_high THEN Str(s_High)
        ELSE v

\* "; ".join(f"{err['loc'][0]}: {err['msg']}" for err in e.errors())
RECURSIVE JoinErrors(_)
JoinErrors(errs) ==
    IF errs = <<>> THEN <<>>
    ELSE LET one == errs[1][1] \o sep_loc \o errs[1][2]
         IN  IF Len(errs) = 1 THEN one
             ELSE one \o sep_err \o JoinErrors(Tail(errs))

\* return ComplianceResult(**raw_json), and the except ValidationError clause
ValidateRaw(raw) ==
    LET errs == ValidationErrors(raw)
    IN  IF errs = <<>>
        THEN MkResult(raw.compliance_status.s, raw.reason.s, raw.risk_level.s,
                      FloatOf(raw.confidence_score))
        ELSE UnknownResult(prefix_validation \o JoinErrors(errs))

\* the try block on the parsed object: the three clean-ups, then validation
NormalizeAndValidate(raw) ==
    IF Has(raw.reason) /\ raw.reason.t # "str" THEN StripError(raw.reason)
    ELSE IF Has(raw.compliance_status) /\ raw.compliance_status.t # "str"
    THEN StripError(raw.compliance_status)
    ELSE IF Has(raw.risk_level) /\ raw.risk_level.t # "str"
    THEN StripError(raw.risk_level)
    ELSE LET r1 == IF Has(raw.reason)
                   THEN [raw EXCEPT !.reason = CleanReason(raw.reason)] ELSE raw
             r2 == IF Has(raw.compliance_status)
                   THEN [r1 EXCEPT !.compliance_status =
                                       NormalizeStatus(raw.compliance_status)]
                   ELSE r1
             r3 == IF Has(raw.risk_level)
                   THEN [r2 EXCEPT !.risk_level = NormalizeRisk(raw.risk_level)]
                   ELSE r2
         IN  Returned(ValidateRaw(r3))

\* _extract_and_validate_json(response_text); resp.parsed is what json.loads makes
\* of the matched substring
ExtractAndValidateJson(resp) ==
    IF ~ReSearch(resp.text).found THEN Returned(UnknownResult(reason_no_json))
    ELSE IF ~resp.parsed.ok
    THEN Returned(UnknownResult(prefix_invalid_json \o resp.parsed.msg))
    ELSE NormalizeAndValidate(resp.parsed.obj)

MkResponse(text, parsed) == [text |-> text, parsed |-> parsed]

----------------------------------------------------------------------------
(* app/rag_engine.py: ComplianceRAG._apply_rule_based_checks. *)

\* the score a rule raises the confidence to, in hundredths
OverrideConfidence == 85

\* a slip in the override: the score is added to instead of raised
RaiseConfidenceAdded(c) == c + OverrideConfidence

\* max(result.confidence_score, 0.85)
RaiseConfidence(c) == IF c >= OverrideConfidence THEN c ELSE OverrideConfidence

\* one rule: the four assignments made when a keyword of the rule is in the clause
ApplyRule(keywords, reason, clause_lower, result) ==
    IF AnyIn(keywords, clause_lower)
    THEN MkResult(s_NonCompliant, reason, s_High,
                  RaiseConfidence(result.confidence_score))
    ELSE result

\* a slip in the override: the rules run in the order 3, 2, 1
ApplyRuleBasedChecksReversed(clause_text, result) ==
    LET clause_lower == Lower(clause_text)
        r1 == ApplyRule(rights_violations, reason_rights, clause_lower, result)
        r2 == ApplyRule(sharing_keywords, reason_sharing, clause_lower, r1)
    IN  ApplyRule(indefinite_keywords, reason_retention, clause_lower, r2)

\* _apply_rule_based_checks(clause_text, result): rules 1, 2, 3 in this order
ApplyRuleBasedChecks(clause_text, result) ==
    LET clause_lower == Lower(clause_text)
        r1 == ApplyRule(indefinite_keywords, reason_retention, clause_lower, result)
        r2 == ApplyRule(sharing_keywords, reason_sharing, clause_lower, r1)
    IN  ApplyRule(rights_violations, reason_rights, clause_lower, r2)

----------------------------------------------------------------------------
(* app/embeddings.py: RegulationVectorStore.  An embedding is one integer  *)
(* coordinate; the flat L2 index reports squared distances.                *)

\* self.metadata: the regulation of each row (regulation i sits in row i - 1)
Metadata(idx) == [i \in 1..Len(idx) |-> i]

\* the squared L2 distance of row i (counted from 1) to the query
Distance(idx, q, i) == (idx[i] - q) * (idx[i] - q)

\* row i comes before row j in the index's answer: nearer, or as near and added first
Before(idx, q, i, j) ==
    \/ Distance(idx, q, i) < Distance(idx, q, j)
    \/ Distance(idx, q, i) = Distance(idx, q, j) /\ i < j

\* self.index.search(query_embedding, top_k): indices[0], the row ids (from 0) of
\* the top_k nearest rows, nearest first, -1 where the index holds no further row
IndexSearch(idx, q, k) ==
    [p \in 1..k |->
        IF p <= Len(idx)
        THEN (CHOOSE i \in 1..Len(idx) :
                 Cardinality({j \in 1..Len(idx) : Before(idx, q, j, i)}) = p - 1) - 1
        ELSE -1]

\* list[i] of Python: a negative i counts from the end of the list
PyIndex(list, i) == IF i >= 0 THEN list[i + 1] ELSE list[Len(list) + i + 1]

\* the loop of search: results.append(self.metadata[idx]) for idx in indices[0]
Lookup(idx, ids) == [p \in 1..Len(ids) |-> PyIndex(Metadata(idx), ids[p])]

\* search(query_text, top_k), given the query's embedding
Search(idx, q, k) == Lookup(idx, IndexSearch(idx, q, k))

\* self.model.encode([query_text]): the embedding model is outside the repository;
\* it is a fixed function of the text
Encode(text) == Len(text) % 3

----------------------------------------------------------------------------
(* app/rag_engine.py: ComplianceRAG.analyze_clause, called by the requests *)
(* of app/api.py on the one rag_engine instance.                           *)

\* the requests that may run at once (the endpoint is a plain def, which the
\* server runs on worker threads)
Requests == {"r1", "r2"}

\* top_k of the search in analyze_clause
TopK == 2

\* a slip in the except clause: the exception's text is left out of the reason
TechnicalErrorNoText(msg) == UnknownResult(prefix_technical)

\* the except clause of analyze_clause
TechnicalError(msg) == UnknownResult(prefix_technical \o msg)

\* the exception of a call: its text, the pc it was raised at, and whether it left
\* analyze_clause (raised outside the try) or was caught by its except clause
NoException == [text |-> <<>>, at |-> "None", escaped |-> FALSE]
Escaped(msg, at) == [text |-> msg, at |-> at, escaped |-> TRUE]
Caught(msg, at) == [text |-> msg, at |-> at, escaped |-> FALSE]

\* the stage of the pipeline a pc belongs to
Stage(p) ==
    IF p \in {"Retrieving", "Searching", "Releasing", "Deleting"} THEN "Retrieving"
    ELSE p

\* a request arrives: rag_engine.analyze_clause(request.clause)
Call(r, c) ==
    /\ pc[r] = "Idle"
    /\ calls < MaxCalls
    /\ calls' = calls + 1
    /\ pc' = [pc EXCEPT ![r] = "Retrieving"]
    /\ clause' = [clause EXCEPT ![r] = c]
    /\ UNCHANGED <<extractVars, searchVars, ruleVars, hasModel, index, retrieved, response,
                   ret, exc, llmCalls>>

\* search reads self.model: AttributeError, outside the try, when it was deleted
SearchBegin(r) ==
    /\ pc[r] = "Retrieving"
    /\ IF hasModel
       THEN /\ pc' = [pc EXCEPT ![r] = "Searching"]
            /\ UNCHANGED <<exc>>
       ELSE /\ pc' = [pc EXCEPT ![r] = "Failed"]
            /\ exc' = [exc EXCEPT ![r] = Escaped(msg_no_model, "Retrieving")]
    /\ UNCHANGED <<extractVars, searchVars, ruleVars, hasModel, index, clause, retrieved,
                   response, ret, llmCalls, calls>>

\* the rest of search: encode, index.search, the metadata lookup
SearchEnd(r) ==
    /\ pc[r] = "Searching"
    /\ retrieved' = [retrieved EXCEPT ![r] = Search(index, Encode(clause[r]), TopK)]
    /\ pc' = [pc EXCEPT ![r] = "Releasing"]
    /\ UNCHANGED <<extractVars, searchVars, ruleVars, hasModel, index, clause, response, ret,
                   exc, llmCalls, calls>>

\* if hasattr(self.vector_store, "model"):
ReleaseCheck(r) ==
    /\ pc[r] = "Releasing"
    /\ pc' = [pc EXCEPT ![r] = IF hasModel THEN "Deleting" ELSE "Prompting"]
    /\ UNCHANGED <<extractVars, searchVars, ruleVars, hasModel, index, clause, retrieved,
                   response, ret, exc, llmCalls, calls>>

\* del self.vector_store.model: AttributeError, outside the try, when another
\* request deleted it since the hasattr
ReleaseDel(r) ==
    /\ pc[r] = "Deleting"
    /\ IF hasModel
       THEN /\ hasModel' = FALSE
            /\ pc' = [pc EXCEPT ![r] = "Prompting"]
            /\ UNCHANGED <<exc>>
       ELSE /\ pc' = [pc EXCEPT ![r] = "Failed"]
            /\ exc' = [exc EXCEPT ![r] = Escaped(msg_del_model, "Deleting")]
            /\ UNCHANGED hasModel
    /\ UNCHANGED <<extractVars, searchVars, ruleVars, index, clause, retrieved, response,
                   ret, llmCalls, calls>>

\* prompt = f"""...{clause_text}...{regulation_context}..."""
BuildPrompt(r) ==
    /\ pc[r] = "Prompting"
    /\ pc' = [pc EXCEPT ![r] = "AwaitingModel"]
    /\ UNCHANGED <<extractVars, searchVars, ruleVars, hasModel, index, clause, retrieved,
                   response, ret, exc, llmCalls, calls>>

\* ollama.chat(...) returns and response["message"]["content"] is read
ModelReply(r, resp) ==
    /\ pc[r] = "AwaitingModel"
    /\ llmCalls' = [llmCalls EXCEPT ![r] = @ + 1]
    /\ response' = [response EXCEPT ![r] = resp]
    /\ pc' = [pc EXCEPT ![r] = "Extracting"]
    /\ UNCHANGED <<extractVars, searchVars, ruleVars, hasModel, index, clause, retrieved,
                   ret, exc, calls>>

\* ollama.chat(...) raises, or its answer has no message content: except Exception
ModelFault(r, msg) ==
    /\ pc[r] = "AwaitingModel"
    /\ llmCalls' = [llmCalls EXCEPT ![r] = @ + 1]
    /\ ret' = [ret EXCEPT ![r] = TechnicalError(msg)]
    /\ exc' = [exc EXCEPT ![r] = Caught(msg, "AwaitingModel")]
    /\ pc' = [pc EXCEPT ![r] = "Failed"]
    /\ UNCHANGED <<extractVars, searchVars, ruleVars, hasModel, index, clause, retrieved,
                   response, calls>>

\* result = self._extract_and_validate_json(response_text); what it raises is
\* caught by except Exception
Extract(r) ==
    /\ pc[r] = "Extracting"
    /\ LET out == ExtractAndValidateJson(response[r])
       IN  IF out.ok
           THEN /\ ret' = [ret EXCEPT ![r] = out.res]
                /\ pc' = [pc EXCEPT ![r] = "Overriding"]
                /\ UNCHANGED exc
           ELSE /\ ret' = [ret EXCEPT ![r] = TechnicalError(out.exc)]
                /\ pc' = [pc EXCEPT ![r] = "Failed"]
                /\ exc' = [exc EXCEPT ![r] = Caught(out.exc, "Extracting")]
    /\ UNCHANGED <<extractVars, searchVars, ruleVars, hasModel, index, clause, retrieved,
                   response, llmCalls, calls>>

\* result = self._apply_rule_based_checks(clause_text, result); return result
Override(r) ==
    /\ pc[r] = "Overriding"
    /\ ret' = [ret EXCEPT ![r] = ApplyRuleBasedChecks(clause[r], ret[r])]
    /\ pc' = [pc EXCEPT ![r] = "Done"]
    /\ UNCHANGED <<extractVars, searchVars, ruleVars, hasModel, index, clause, retrieved,
                   response, exc, llmCalls, calls>>

\* the endpoint hands the result (or the exception) to the server; the request's
\* thread is free for the next request
Finish(r) ==
    /\ pc[r] \in {"Done", "Failed"}
    /\ pc' = [pc EXCEPT ![r] = "Idle"]
    /\ clause' = [clause EXCEPT ![r] = <<>>]
    /\ retrieved' = [retrieved EXCEPT ![r] = <<>>]
    /\ response' = [response EXCEPT ![r] = MkResponse(<<>>, DecodeError(<<>>))]
    /\ ret' = [ret EXCEPT ![r] = NoResult]
    /\ exc' = [exc EXCEPT ![r] = NoException]
    /\ llmCalls' = [llmCalls EXCEPT ![r] = 0]
    /\ UNCHANGED <<extractVars, searchVars, ruleVars, hasModel, index, calls>>

\* ---- the inputs of the model ----

\* compliance_status values given to the extractor
StatusValues ==
    {
      Str(<<"C", "o", "m", "p", "l", "i", "a", "n", "t">>),
      Str(<<" ", "Y", "E", "S", " ">>),
      Str(<<"P", "a", "s", "s">>),
      Str(<<"n", "o">>),
      Str(<<"F", "A", "I", "L">>),
      Str(<<"n", "o", "n", "c", "o", "m", "p", "l", "i", "a", "n", "t">>),
      Str(<<"N", "o", "n", "-", "C", "o", "m", "p", "l", "i", "a", "n", "t">>),
      Str(<<"p", "a", "r", "t", "i", "a", "l">>),
      Str(<<"P", "a", "r", "t", "l", "y">>),
      Str(<<"p", "a", "r", "t", "i", "a", "l", "l", "y", " ", "c", "o", "m", "p", "l", "i", "a", "n", "t">>),
      Str(<<"U", "n", "k", "n", "o", "w", "n">>),
      Str(<<"u", "n", "k", "n", "o", "w", "n">>),
      Str(<<"m", "a", "y", "b", "e">>),
      Str(<<>>),
      Null,
      Absent
    }
\* risk_level values given to the extractor
RiskValues ==
    {
      Str(<<"L", "o", "w">>),
      Str(<<" ", "L">>),
      Str(<<"m", "e", "d">>),
      Str(<<"M">>),
      Str(<<"M", "o", "d", "e", "r", "a", "t", "e">>),
      Str(<<"M", "E", "D", "I", "U", "M">>),
      Str(<<"h">>),
      Str(<<"C", "r", "i", "t", "i", "c", "a", "l">>),
      Str(<<"H", "i", "g", "h">>),
      Str(<<"U", "n", "k", "n", "o", "w", "n">>),
      Str(<<" ", "u", "n", "k", "n", "o", "w", "n">>),
      Str(<<"s", "e", "v", "e", "r", "e">>),
      Null,
      Absent
    }
\* reason values given to the extractor
ReasonValues ==
    {
      Str(<<"o", "k">>),
      Str(<<" ", " ", " ", " ">>),
      Str(<<"f", "i", "n", "e", " ", "e", "x", "p", "l", "a", "n", "a", "t", "i", "o", "n">>),
      Str(<<" ", " ", "A", " ", "l", "o", "n", "g", "e", "r", " ", "r", "e", "a", "s", "o", "n", ".", " ">>),
      Null,
      Absent
    }
\* confidence_score values given to the extractor
ConfidenceValues ==
    {
      Num(-10),
      Num(0),
      Num(70),
      Num(100),
      Num(150),
      Str(<<"0", ".", "9">>),
      Str(<<"1", ".", "5">>),
      Str(<<"h", "i", "g", "h">>),
      Null,
      Absent
    }

\* the answers of the language model to a request: no JSON; an object that does
\* not parse; a verdict with a short reason; a disagreeing verdict; a field that
\* fails validation; a field that is no string
Responses ==
    { MkResponse(text_prose, DecodeError(<<>>)),
      MkResponse(text_json, DecodeError(msg_json_decode)),
      MkResponse(text_json, Parsed(MkRaw(Str(s_NonCompliant), Str(v_ok),
                                         Str(s_High), Num(70)))),
      MkResponse(text_json, Parsed(MkRaw(Str(s_Compliant), Str(v_lawful),
                                         Str(s_Low), Num(95)))),
      MkResponse(text_json, Parsed(MkRaw(Str(v_maybe), Str(v_lawful),
                                         Str(s_Low), Num(150)))),
      MkResponse(text_json, Parsed(MkRaw(Null, Str(v_lawful),
                                         Str(s_Low), Num(90)))) }

\* the texts of the faults of the model client (str(e) may be empty)
Faults == {<<>>, msg_timeout}

\* the regulation datasets the instance is built from (their embeddings)
Datasets == { <<1>>, <<2, 0, 1>> }

NoResponse == MkResponse(<<>>, DecodeError(<<>>))

\* no request is running
PipelineIdle ==
    /\ hasModel = TRUE
    /\ pc = [r \in Requests |-> "Idle"]
    /\ clause = [r \in Requests |-> <<>>]
    /\ retrieved = [r \in Requests |-> <<>>]
    /\ response = [r \in Requests |-> NoResponse]
    /\ ret = [r \in Requests |-> NoResult]
    /\ exc = [r \in Requests |-> NoException]
    /\ llmCalls = [r \in Requests |-> 0]
    /\ calls = 0

\* the extractor has not been given a response
ExtractIdle ==
    /\ exResponse = NoResponse
    /\ exMatch = NoMatch
    /\ exOut = Returned(NoResult)
    /\ exDone = FALSE

\* search has not been given a query
SearchIdle ==
    /\ sQuery = 0
    /\ sK = 1
    /\ sIds = <<>>
    /\ sResult = <<>>
    /\ sDone = FALSE

\* the rules have not been given a clause
RulesIdle ==
    /\ ruClause = <<>>
    /\ ruIn = NoResult
    /\ ruOut = NoResult
    /\ ruDone = FALSE

----------------------------------------------------------------------------
(* Spec: requests calling analyze_clause on the shared instance.  The      *)
(* instance is constructed (ComplianceRAG.__init__: the store is built and *)
(* the regulations are loaded) before the first request.                   *)

Init ==
    /\ index \in Datasets
    /\ PipelineIdle
    /\ ExtractIdle
    /\ SearchIdle
    /\ RulesIdle

Next ==
    \E r \in Requests :
        \/ \E c \in Clauses : Call(r, c)
        \/ SearchBegin(r)
        \/ SearchEnd(r)
        \/ ReleaseCheck(r)
        \/ ReleaseDel(r)
        \/ BuildPrompt(r)
        \/ \E resp \in Responses : ModelReply(r, resp)
        \/ \E msg \in Faults : ModelFault(r, msg)
        \/ Extract(r)
        \/ Override(r)
        \/ Finish(r)

Spec == Init /\ [][Next]_vars

----------------------------------------------------------------------------
(* SpecExtract: _extract_and_validate_json applied to every parsed object  *)
(* over the field values above.  SpecBrace: the same, applied to every raw *)
(* text of braces and prose up to MaxLen characters.                       *)

\* the extractor runs on the response
ExtractStep ==
    /\ ~exDone
    /\ exMatch' = ReSearch(exResponse.text)
    /\ exOut' = ExtractAndValidateJson(exResponse)
    /\ exDone' = TRUE
    /\ UNCHANGED <<exResponse, index, pipelineVars, searchVars, ruleVars>>

RawObjects ==
    { MkRaw(s, rs, rk, c) : s \in StatusValues, rs \in ReasonValues,
                            rk \in RiskValues, c \in ConfidenceValues }

InitExtract ==
    /\ index \in {<<1>>}
    /\ PipelineIdle
    /\ SearchIdle
    /\ RulesIdle
    /\ exResponse \in {MkResponse(text_json, Parsed(raw)) : raw \in RawObjects}
    /\ exMatch = NoMatch
    /\ exOut = Returned(NoResult)
    /\ exDone = FALSE

SpecExtract == InitExtract /\ [][ExtractStep]_vars

\* the characters of a raw text: the two braces and anything else
BraceAlphabet == {"{", "}", "a"}

RawTexts == UNION {[1..n -> BraceAlphabet] : n \in 0..MaxLen}

\* what json.loads makes of a matched substring: an error, or an object
ParsedValues ==
    { DecodeError(msg_json_decode),
      Parsed(MkRaw(Str(s_Compliant), Str(v_lawful), Str(s_Low), Num(90))) }

InitBrace ==
    /\ index \in {<<1>>}
    /\ PipelineIdle
    /\ SearchIdle
    /\ RulesIdle
    /\ exResponse \in {MkResponse(t, p) : t \in RawTexts, p \in ParsedValues}
    /\ exMatch = NoMatch
    /\ exOut = Returned(NoResult)
    /\ exDone = FALSE

SpecBrace == InitBrace /\ [][ExtractStep]_vars

----------------------------------------------------------------------------
(* SpecSearch: search applied to every query, top_k and built index within *)
(* the bounds.                                                             *)

\* store.search(query, top_k)
SearchStep ==
    /\ ~sDone
    /\ sIds' = IndexSearch(index, sQuery, sK)
    /\ sResult' = Search(index, sQuery, sK)
    /\ sDone' = TRUE
    /\ UNCHANGED <<sQuery, sK, index, pipelineVars, extractVars, ruleVars>>

InitSearch ==
    /\ index \in UNION {[1..n -> 0..MaxCoord] : n \in 1..MaxN}
    /\ PipelineIdle
    /\ ExtractIdle
    /\ RulesIdle
    /\ sQuery \in 0..MaxCoord
    /\ sK \in 1..MaxK
    /\ sIds = <<>>
    /\ sResult = <<>>
    /\ sDone = FALSE

SpecSearch == InitSearch /\ [][SearchStep]_vars

----------------------------------------------------------------------------
(* SpecRules: _apply_rule_based_checks applied to every clause below and   *)
(* every valid result over the values below.                               *)

\* clause texts given to the rules: every combination of the three keyword lists
RuleClauses ==
    {
      <<>>,
      <<"l", "a", "w", "f", "u", "l", " ", "u", "s", "e">>,
      <<"R", "e", "t", "a", "i", "n", "e", "d", " ", "I", "N", "D", "E", "F", "I", "N", "I", "T",
        "E", "L", "Y">>,
      <<"S", "e", "l", "l", " ", "P", "e", "r", "s", "o", "n", "a", "l", " ", "D", "a", "t", "a">>,
      <<"n", "o", " ", "r", "i", "g", "h", "t", " ", "t", "o", " ", "d", "e", "l", "e", "t", "i",
        "o", "n">>,
      <<"K", "e", "e", "p", " ", "a", "l", "l", " ", "d", "a", "t", "a", ";", " ", "S", "E", "L",
        "L", " ", "p", "e", "r", "s", "o", "n", "a", "l", " ", "d", "a", "t", "a">>,
      <<"F", "o", "r", "e", "v", "e", "r", ":", " ", "u", "s", "e", "r", "s", " ", "c", "a", "n",
        "n", "o", "t", " ", "a", "c", "c", "e", "s", "s", " ", "t", "h", "e", "i", "r", " ", "d",
        "a", "t", "a">>,
      <<"s", "e", "l", "l", " ", "p", "e", "r", "s", "o", "n", "a", "l", " ", "d", "a", "t", "a",
        ",", " ", "d", "a", "t", "a", " ", "c", "a", "n", "n", "o", "t", " ", "b", "e", " ", "r",
        "e", "m", "o", "v", "e", "d">>,
      <<"N", "e", "v", "e", "r", " ", "d", "e", "l", "e", "t", "e", ".", " ", "S", "e", "l", "l",
        " ", "p", "e", "r", "s", "o", "n", "a", "l", " ", "d", "a", "t", "a", ".", " ", "N", "o",
        " ", "r", "i", "g", "h", "t", " ", "t", "o", " ", "d", "e", "l", "e", "t", "i", "o", "n">>
    }

\* confidence scores of the results given to the rules, around the override's
RuleConfidences == {0, 50, 84, 85, 86, 100}

\* the results given to the rules: what the extractor can return
RuleResults ==
    { MkResult(s, rs, rk, c) : s \in StatusLiterals, rs \in {v_lawful, reason_no_json},
                               rk \in RiskLiterals, c \in RuleConfidences }

\* result = self._apply_rule_based_checks(clause_text, result)
RulesStep ==
    /\ ~ruDone
    /\ ruOut' = ApplyRuleBasedChecks(ruClause, ruIn)
    /\ ruDone' = TRUE
    /\ UNCHANGED <<ruClause, ruIn, index, pipelineVars, extractVars, searchVars>>

InitRules ==
    /\ index \in {<<1>>}
    /\ PipelineIdle
    /\ ExtractIdle
    /\ SearchIdle
    /\ ruClause \in RuleClauses
    /\ ruIn \in RuleResults
    /\ ruOut = NoResult
    /\ ruDone = FALSE

SpecRules == InitRules /\ [][RulesStep]_vars

----------------------------------------------------------------------------
(* The claims. *)

\* the call of request r has ended: it returned a result or its exception escaped
Ended(r) == pc[r] \in {"Done", "Failed"}

\* the call of request r has returned a ComplianceResult
HasReturned(r) == Ended(r) /\ ~exc[r].escaped

\* the clause of request r holds a retention keyword
IsRetentionClause(r) == AnyIn(indefinite_keywords, Lower(clause[r]))

\* s ends with the text e
EndsWith(s, e) ==
    /\ Len(s) >= Len(e)
    /\ SubSeq(s, Len(s) - Len(e) + 1, Len(s)) = e

\* s starts with the text b
StartsWith(s, b) == Len(s) >= Len(b) /\ SubSeq(s, 1, Len(b)) = b

\* C1: no exception ever leaves analyze_clause, whatever calls came before on the
\* same instance, and a call that ended in a fault returned an Unknown result with
\* a diagnostic reason.
C1_NoExceptionEscapes ==
    \A r \in Requests :
        /\ ~exc[r].escaped
        /\ (pc[r] = "Failed" =>
               /\ ret[r].compliance_status = s_Unknown
               /\ Strip(ret[r].reason) # <<>>)

\* C2: every result returned for a clause that holds a retention keyword is
\* Non-Compliant, High, with a confidence of at least 0.85, whatever the language
\* model did (a disagreeing verdict, no JSON, invalid fields, a fault).
C2_RetentionOverrideAlwaysWins ==
    \A r \in Requests :
        (HasReturned(r) /\ IsRetentionClause(r)) =>
            /\ ret[r].compliance_status = s_NonCompliant
            /\ ret[r].risk_level = s_High
            /\ ret[r].confidence_score >= OverrideConfidence

\* C3: every ComplianceResult analyze_clause returns (success path, extractor
\* fallbacks, client fault, after the rule override) satisfies the four field
\* constraints of the schema.
C3_ReturnedResultsValid ==
    \A r \in Requests : HasReturned(r) => ValidResult(ret[r])

\* C3 witness: the rule override has rewritten a validated verdict of the model
\* whose confidence was above the override's.
C3_Witness ==
    \E r \in Requests :
        /\ pc[r] = "Done"
        /\ IsRetentionClause(r)
        /\ response[r].parsed.ok
        /\ ret[r].compliance_status = s_NonCompliant
        /\ ret[r].confidence_score > OverrideConfidence

\* C4: the embedding provider is released strictly after the last search that
\* needs it: no search is in flight while the provider is released, and no search
\* starts (and fails) after the release.
C4_ReleaseAfterLastSearch ==
    \A r \in Requests :
        /\ pc[r] = "Searching" => hasModel
        /\ ~(exc[r].escaped /\ exc[r].at = "Retrieving")

\* the stage changes the pipeline allows
StageOrder ==
    { <<"Idle", "Retrieving">>, <<"Retrieving", "Prompting">>,
      <<"Prompting", "AwaitingModel">>, <<"AwaitingModel", "Extracting">>,
      <<"Extracting", "Overriding">>, <<"Overriding", "Done">>,
      <<"Retrieving", "Failed">>, <<"Prompting", "Failed">>,
      <<"AwaitingModel", "Failed">>, <<"Extracting", "Failed">>,
      <<"Overriding", "Failed">>, <<"Done", "Idle">>, <<"Failed", "Idle">> }

\* a fault of the model client of request r is surfaced as the Unknown result that
\* carries the fault's text
ClientFaultSurfaced(r) ==
    (pc[r] = "Failed" /\ exc[r].at = "AwaitingModel") =>
        /\ ~exc[r].escaped
        /\ ret[r].compliance_status = s_Unknown
        /\ ret[r].risk_level = s_Unknown
        /\ ret[r].confidence_score = 0
        /\ StartsWith(ret[r].reason, prefix_technical)
        /\ EndsWith(ret[r].reason, exc[r].text)
        /\ Len(ret[r].reason) = Len(prefix_technical) + Len(exc[r].text)

\* C6: every run moves through Retrieving, Prompting, Awaiting-Model, Extracting,
\* Overriding in this order and ends in Done or Failed; it calls the language
\* model at most once; a client fault goes from Awaiting-Model straight to Failed
\* and is surfaced as an Unknown result (risk Unknown, confidence 0.0) whose reason
\* carries the fault's text.
C6_StagesInOrder ==
    /\ [](\A r \in Requests : llmCalls[r] <= 1 /\ ClientFaultSurfaced(r))
    /\ [][\A r \in Requests :
            /\ Stage(pc[r]) # Stage(pc'[r]) =>
                   <<Stage(pc[r]), Stage(pc'[r])>> \in StageOrder
            /\ llmCalls'[r] > llmCalls[r] =>
                   /\ pc[r] = "AwaitingModel"
                   /\ pc'[r] \in {"Extracting", "Failed"}]_vars

\* C6 witness: a run whose one model call faulted with a timeout has failed.
C6_Witness ==
    \E r \in Requests :
        /\ pc[r] = "Failed"
        /\ exc[r] = Caught(msg_timeout, "AwaitingModel")
        /\ llmCalls[r] = 1

\* the distance of regulation c (its row counted from 1) to the query of search
ResultDistance(c) == Distance(index, sQuery, c)

\* C5: search(q, k) on a built index of n >= 1 regulations returns at most k
\* regulations, each an indexed one, in non-decreasing distance to the query (ties
\* in insertion order); when k exceeds n it returns exactly the n regulations, each
\* once.
C5_SearchContract ==
    sDone =>
        LET n == Len(index)
        IN  /\ Len(sResult) <= sK
            /\ \A p \in 1..Len(sResult) : sResult[p] \in 1..n
            /\ \A p, q \in 1..Len(sResult) :
                   p < q =>
                       \/ ResultDistance(sResult[p]) < ResultDistance(sResult[q])
                       \/ /\ ResultDistance(sResult[p]) = ResultDistance(sResult[q])
                          /\ sResult[p] < sResult[q]
            /\ sK > n =>
                   /\ Len(sResult) = n
                   /\ \A c \in 1..n :
                          Cardinality({p \in 1..Len(sResult) : sResult[p] = c}) = 1

\* the claim's aliases of Compliant
C7_CompliantAliases ==
    {
      <<"y", "e", "s">>,
      <<"p", "a", "s", "s">>
    }
\* the claim's aliases of Non-Compliant
C7_NonCompliantAliases ==
    {
      <<"n", "o">>,
      <<"f", "a", "i", "l">>,
      <<"n", "o", "n", "c", "o", "m", "p", "l", "i", "a", "n", "t">>
    }
\* the claim's aliases of Partially Compliant
C7_PartialAliases ==
    {
      <<"p", "a", "r", "t", "i", "a", "l">>,
      <<"p", "a", "r", "t", "l", "y">>
    }
\* the claim's alias of Low
C7_LowAliases ==
    {
      <<"l">>
    }
\* the claim's aliases of Medium
C7_MediumAliases ==
    {
      <<"m", "e", "d">>,
      <<"m">>,
      <<"m", "o", "d", "e", "r", "a", "t", "e">>
    }
\* the claim's aliases of High
C7_HighAliases ==
    {
      <<"h">>,
      <<"c", "r", "i", "t", "i", "c", "a", "l">>
    }

\* the parsed object given to the extractor
ExRaw == exResponse.parsed.obj

\* the extractor ran on a parsed object
ExtractedObject == exDone /\ exResponse.parsed.ok /\ exMatch.found

AllFour(raw) ==
    /\ Has(raw.compliance_status)
    /\ Has(raw.reason)
    /\ Has(raw.risk_level)
    /\ Has(raw.confidence_score)

\* the three fields the extractor strips are strings where they are present
StringFields(raw) ==
    /\ raw.compliance_status.t \in {"str", "absent"}
    /\ raw.reason.t \in {"str", "absent"}
    /\ raw.risk_level.t \in {"str", "absent"}

\* the value the claim gives a compliance_status: trimmed and lower-cased, an alias
\* or a canonical value maps to the canonical value, anything else is Unknown
C7_Status(v) ==
    LET w == IF v.t = "str" THEN Lower(Strip(v.s)) ELSE <<>>
    IN  IF w \in C7_CompliantAliases \/ w = Lower(s_Compliant) THEN s_Compliant
        ELSE IF w \in C7_NonCompliantAliases \/ w = Lower(s_NonCompliant)
        THEN s_NonCompliant
        ELSE IF w \in C7_PartialAliases \/ w = Lower(s_PartiallyCompliant)
        THEN s_PartiallyCompliant
        ELSE s_Unknown

\* the value the claim gives a risk_level
C7_Risk(v) ==
    LET w == IF v.t = "str" THEN Lower(Strip(v.s)) ELSE <<>>
    IN  IF w \in C7_LowAliases \/ w = Lower(s_Low) THEN s_Low
        ELSE IF w \in C7_MediumAliases \/ w = Lower(s_Medium) THEN s_Medium
        ELSE IF w \in C7_HighAliases \/ w = Lower(s_High) THEN s_High
        ELSE s_Unknown

\* the field's text is accepted: an alias or a canonical value in any case and
\* with surrounding blanks, or Unknown spelled exactly
C7_StatusAccepted(v) == v.t = "str" /\ (C7_Status(v) # s_Unknown \/ v.s = s_Unknown)
C7_RiskAccepted(v) == v.t = "str" /\ (C7_Risk(v) # s_Unknown \/ v.s = s_Unknown)

\* the fallback of a failed validation: Unknown, Unknown, 0.0 and a reason that
\* starts "Validation failed: "
IsValidationFallback(r) ==
    /\ r.compliance_status = s_Unknown
    /\ r.risk_level = s_Unknown
    /\ r.confidence_score = 0
    /\ StartsWith(r.reason, prefix_validation)

\* C7 as stated: for every parsed object with all four fields the extractor
\* normalizes compliance_status and risk_level field by field, case-insensitively
\* and trimmed: alias to canonical value, canonical value kept, any other value
\* Unknown in that field, the other fields normalized independently.
C7_FieldByField ==
    (/\ ExtractedObject
     /\ AllFour(ExRaw)
     /\ StringFields(ExRaw)
     /\ ConfidenceError(ExRaw.confidence_score) = <<>>) =>
        /\ exOut.ok
        /\ exOut.res.compliance_status = C7_Status(ExRaw.compliance_status)
        /\ exOut.res.risk_level = C7_Risk(ExRaw.risk_level)

\* C7 amended: with all four fields present and string-valued status, risk and
\* reason, an alias or canonical value of compliance_status and of risk_level maps
\* (trimmed, case-insensitively) to its canonical value, and Unknown is accepted
\* only spelled exactly; when both fields are accepted and the confidence validates
\* the result holds the two canonical values; any other value in either field is
\* left as it is, fails validation, and the whole result is the validation
\* fallback (both fields Unknown, confidence 0.0).  A non-string status, risk or
\* reason makes the extractor raise.
C7_NormalizeOrFallBack ==
    (ExtractedObject /\ AllFour(ExRaw)) =>
        IF ~StringFields(ExRaw) THEN ~exOut.ok
        ELSE /\ exOut.ok
             /\ IF /\ C7_StatusAccepted(ExRaw.compliance_status)
                   /\ C7_RiskAccepted(ExRaw.risk_level)
                   /\ ConfidenceError(ExRaw.confidence_score) = <<>>
                THEN /\ exOut.res.compliance_status =
                            C7_Status(ExRaw.compliance_status)
                     /\ exOut.res.risk_level = C7_Risk(ExRaw.risk_level)
                     /\ ~StartsWith(exOut.res.reason, prefix_validation)
                ELSE IsValidationFallback(exOut.res)

\* C7 witness: aliases written in another case and with blanks were normalized.
C7_Witness ==
    /\ ExtractedObject
    /\ AllFour(ExRaw)
    /\ ExRaw.compliance_status.t = "str"
    /\ ExRaw.compliance_status.s # Lower(Strip(ExRaw.compliance_status.s))
    /\ Lower(Strip(ExRaw.compliance_status.s)) \in C7_CompliantAliases
    /\ ExRaw.risk_level.t = "str"
    /\ ExRaw.risk_level.s # Lower(ExRaw.risk_level.s)
    /\ Lower(Strip(ExRaw.risk_level.s)) \in C7_MediumAliases
    /\ exOut.ok
    /\ exOut.res.compliance_status = s_Compliant
    /\ exOut.res.risk_level = s_Medium

\* the field is a string that validation and the clean-ups leave as it is
C8_ValidStatus(v) == v.t = "str" /\ v.s \in StatusLiterals
C8_ValidRisk(v) == v.t = "str" /\ v.s \in RiskLiterals
C8_ValidReason(v) ==
    v.t = "str" /\ Len(v.s) >= MinReasonLength /\ Strip(v.s) = v.s

C8_OthersValid(raw) ==
    /\ C8_ValidStatus(raw.compliance_status)
    /\ C8_ValidRisk(raw.risk_level)
    /\ C8_ValidReason(raw.reason)
    /\ Has(raw.confidence_score)

\* the model's compliance_status, risk_level and reason are kept in the result
C8_OthersKept(raw, r) ==
    /\ r.compliance_status = raw.compliance_status.s
    /\ r.risk_level = raw.risk_level.s
    /\ r.reason = raw.reason.s

\* the value clamped to [0.0, 1.0]
C8_Clamp(n) ==
    IF n > ConfidenceMax THEN ConfidenceMax
    ELSE IF n < ConfidenceMin THEN ConfidenceMin
    ELSE n

\* C8 as stated: with the other three fields valid, confidence_score is the model's
\* value clamped to [0.0, 1.0], and 0.0 when it cannot be coerced to a number; the
\* model's compliance_status, risk_level and reason are kept.
C8_Clamped ==
    (ExtractedObject /\ C8_OthersValid(ExRaw)) =>
        /\ exOut.ok
        /\ C8_OthersKept(ExRaw, exOut.res)
        /\ exOut.res.confidence_score =
               IF IsFloatLike(ExRaw.confidence_score)
               THEN C8_Clamp(FloatOf(ExRaw.confidence_score))
               ELSE 0

\* C8 amended: with the other three fields valid, a confidence_score that is a
\* number (or a string that reads as one) within [0.0, 1.0] is returned unchanged
\* with the model's compliance_status, risk_level and reason; a value above 1.0,
\* below 0.0 or not coercible is not clamped: the result is the validation fallback
\* (compliance_status Unknown, risk_level Unknown, confidence_score 0.0, reason
\* "Validation failed: confidence_score: ...") and the model's other fields are
\* not kept.
C8_InRangeOrFallBack ==
    (ExtractedObject /\ C8_OthersValid(ExRaw)) =>
        /\ exOut.ok
        /\ IF /\ IsFloatLike(ExRaw.confidence_score)
              /\ FloatOf(ExRaw.confidence_score) >= ConfidenceMin
              /\ FloatOf(ExRaw.confidence_score) <= ConfidenceMax
           THEN /\ C8_OthersKept(ExRaw, exOut.res)
                /\ exOut.res.confidence_score = FloatOf(ExRaw.confidence_score)
                /\ (ExRaw.confidence_score.t = "num" =>
                        exOut.res.confidence_score = ExRaw.confidence_score.n)
           ELSE /\ IsValidationFallback(exOut.res)
                /\ StartsWith(exOut.res.reason,
                              prefix_validation \o f_confidence_score \o sep_loc)

\* C8 witness: a confidence above 1.0 beside a valid verdict gave the fallback.
C8_Witness ==
    /\ ExtractedObject
    /\ C8_OthersValid(ExRaw)
    /\ ExRaw.compliance_status.s = s_Compliant
    /\ ExRaw.confidence_score.t = "num"
    /\ ExRaw.confidence_score.n > ConfidenceMax
    /\ exOut.ok
    /\ exOut.res.compliance_status = s_Unknown
    /\ exOut.res.confidence_score = 0

\* the four fields: the name of each and its value in a parsed object
FieldNames == <<f_compliance_status, f_reason, f_risk_level, f_confidence_score>>
FieldValues(raw) ==
    <<raw.compliance_status, raw.reason, raw.risk_level, raw.confidence_score>>

\* the numbers (1..4, in the order of the schema) of the fields raw lacks
MissingFields(raw) == {i \in 1..4 : ~Has(FieldValues(raw)[i])}

\* the reason reports field i as missing
NamesMissing(reason, i) ==
    Contains(reason, FieldNames[i] \o sep_loc \o msg_missing)

\* how many errors a validation reason lists: one "field: message" each
ErrorsListed(reason) ==
    Cardinality({k \in 1..Len(reason) :
                    /\ k + Len(sep_loc) - 1 <= Len(reason)
                    /\ SubSeq(reason, k, k + Len(sep_loc) - 1) = sep_loc}) - 1

\* the present fields of raw would pass validation as they are
C9_PresentUsable(raw) ==
    /\ Has(raw.compliance_status) => C8_ValidStatus(raw.compliance_status)
    /\ Has(raw.risk_level) => C8_ValidRisk(raw.risk_level)
    /\ Has(raw.reason) => C8_ValidReason(raw.reason)
    /\ Has(raw.confidence_score) =>
           /\ raw.confidence_score.t = "num"
           /\ raw.confidence_score.n >= ConfidenceMin
           /\ raw.confidence_score.n <= ConfidenceMax

\* C9 as stated: when the parsed object lacks one or more of the four fields the
\* result is Unknown, its reason names exactly the missing fields, and the values
\* of the fields that were present and usable are preserved in the result.
C9_MissingKeepsOthers ==
    (ExtractedObject /\ MissingFields(ExRaw) # {} /\ C9_PresentUsable(ExRaw)) =>
        /\ exOut.ok
        /\ exOut.res.compliance_status = s_Unknown
        /\ \A i \in 1..4 : NamesMissing(exOut.res.reason, i) <=> i \in MissingFields(ExRaw)
        /\ Has(ExRaw.risk_level) => exOut.res.risk_level = ExRaw.risk_level.s
        /\ Has(ExRaw.confidence_score) =>
               exOut.res.confidence_score = ExRaw.confidence_score.n

\* C9 amended: when the parsed object lacks one or more of the four fields and its
\* present status, risk and reason are strings, the result is the validation
\* fallback: compliance_status Unknown, risk_level Unknown, confidence_score 0.0
\* and a reason "Validation failed: ..." that reports exactly the missing fields as
\* "Field required" (and lists nothing else when the present fields are valid);
\* the values of the present fields are not preserved.  A present non-string
\* status, risk or reason makes the extractor raise instead.
C9_MissingGivesFallback ==
    (ExtractedObject /\ MissingFields(ExRaw) # {}) =>
        IF ~StringFields(ExRaw) THEN ~exOut.ok
        ELSE /\ exOut.ok
             /\ IsValidationFallback(exOut.res)
             /\ \A i \in 1..4 :
                    NamesMissing(exOut.res.reason, i) <=> i \in MissingFields(ExRaw)
             /\ ErrorsListed(exOut.res.reason) >= Cardinality(MissingFields(ExRaw))
             /\ C9_PresentUsable(ExRaw) =>
                    ErrorsListed(exOut.res.reason) = Cardinality(MissingFields(ExRaw))

\* C9 witness: two fields were missing beside a valid risk_level and a valid
\* confidence_score, and neither value is in the result.
C9_Witness ==
    /\ ExtractedObject
    /\ MissingFields(ExRaw) = {1, 2}
    /\ ExRaw.risk_level = Str(s_High)
    /\ ExRaw.confidence_score = Num(70)
    /\ exOut.ok
    /\ exOut.res.risk_level = s_Unknown
    /\ exOut.res.confidence_score = 0
    /\ ErrorsListed(exOut.res.reason) = 2

\* the braces opened and not yet closed in t[i..j]
BraceDepth(t, i, j) ==
    Cardinality({k \in i..j : t[k] = "{"}) - Cardinality({k \in i..j : t[k] = "}"})

\* the position of the brace that closes the one opened at i, 0 when none does
ClosingBrace(t, i) ==
    LET closes == {j \in (i + 1)..Len(t) : BraceDepth(t, i, j) = 0}
    IN  IF closes = {} THEN 0 ELSE Min(closes)

\* the positions at which a balanced-brace object starts
ObjectStarts(t) == {i \in 1..Len(t) : t[i] = "{" /\ ClosingBrace(t, i) > 0}

\* how deep the braces of the object t[i..j] nest (1: no nested braces)
Nesting(t, i, j) == Max({BraceDepth(t, i, k) : k \in i..j})

\* C10: for every raw model text the extractor selects the first outermost
\* balanced-brace object, without the prose around it, when that object has no
\* nested braces or one level of them; it finds an object whenever the text holds
\* a balanced-brace object, and a text with none yields the Unknown result with
\* reason "LLM did not return structured output", risk Unknown, confidence 0.0.
C10_FirstOutermostObject ==
    exDone =>
        LET t == exResponse.text
            starts == ObjectStarts(t)
        IN  IF starts = {}
            THEN /\ ~exMatch.found
                 /\ exOut = Returned(MkResult(s_Unknown, reason_no_json, s_Unknown, 0))
            ELSE LET i == Min(starts)
                     j == ClosingBrace(t, i)
                 IN  /\ exMatch.found
                     /\ exOut # Returned(UnknownResult(reason_no_json))
                     /\ Nesting(t, i, j) <= 2 =>
                            /\ exMatch.start = i
                            /\ exMatch.end = j
                            /\ exMatch.group = SubSeq(t, i, j)

\* C10 witness: an object with one level of nested braces was selected out of the
\* prose before and after it.
C10_Witness ==
    /\ exDone
    /\ exMatch.found
    /\ exMatch.start > 1
    /\ exMatch.end < Len(exResponse.text)
    /\ Nesting(exResponse.text, exMatch.start, exMatch.end) = 2
    /\ exMatch.group = SubSeq(exResponse.text, exMatch.start, exMatch.end)
    /\ ObjectStarts(exResponse.text) # {}
    /\ exMatch.start = Min(ObjectStarts(exResponse.text))

\* which of the three keyword lists the clause given to the rules matches
C11_Retention == AnyIn(indefinite_keywords, Lower(ruClause))
C11_Sharing == AnyIn(sharing_keywords, Lower(ruClause))
C11_Rights == AnyIn(rights_violations, Lower(ruClause))

\* the reason of the last matching list in the order retention, sharing, rights
C11_LastReason ==
    IF C11_Rights THEN reason_rights
    ELSE IF C11_Sharing THEN reason_sharing
    ELSE reason_retention

\* C11: the rule override applies the matching keyword lists in the order
\* retention, sharing, rights: if at least one matches, the output is
\* Non-Compliant, High, with the reason of the last matching list in that order
\* and confidence_score = max(input confidence_score, 0.85), never lower than the
\* input; if none matches, the four fields of the result are unchanged.
C11_RulesInOrder ==
    ruDone =>
        IF C11_Retention \/ C11_Sharing \/ C11_Rights
        THEN /\ ruOut.compliance_status = s_NonCompliant
             /\ ruOut.risk_level = s_High
             /\ ruOut.reason = C11_LastReason
             /\ ruOut.confidence_score = Max({ruIn.confidence_score, OverrideConfidence})
             /\ ruOut.confidence_score >= ruIn.confidence_score
        ELSE ruOut = ruIn

\* C11 witness: a clause that matches the retention and the sharing list but not
\* the rights list got the sharing reason, and a confidence above the override's
\* was kept.
C11_Witness ==
    /\ ruDone
    /\ C11_Retention
    /\ C11_Sharing
    /\ ~C11_Rights
    /\ ruClause # Lower(ruClause)
    /\ ruIn.compliance_status = s_Compliant
    /\ ruIn.confidence_score > OverrideConfidence
    /\ ruOut.reason = reason_sharing
    /\ ruOut.confidence_score = ruIn.confidence_score

=============================================================================
